---- MODULE Spec2Model ----
(***************************************************************************)
(* Model of optimize_images.py: optimize_image (one file), the batch loop  *)
(* optimize_directory, and the command line entry point main.              *)
(*                                                                         *)
(* Paths and file names are sequences of one-character strings, so that    *)
(* lower(), endswith() and os.path.splitext() are computed on characters.  *)
(* The file system is a record [dirs, files]: the set of directory paths   *)
(* and a function from the paths of regular files to their contents.       *)
(***************************************************************************)
EXTENDS Integers, Sequences, FiniteSets, TLC

VARIABLES
    pc,            \* position of the process
    args,          \* parsed command line: directory, output, max_width, quality, png_optimize
    fs,            \* the file system
    image_files,   \* optimize_directory: the listing, in os.listdir order
    idx,           \* optimize_directory: number of loop iterations completed
    success_count,
    total_original_size,
    total_new_size,
    exit_code,     \* status of the process once it has ended, else -1
    report,        \* the last thing the process reported on the console
    fs0,           \* history: the file system at start
    calls          \* history: one record per optimize_image call, in order

vars == <<pc, args, fs, image_files, idx, success_count, total_original_size,
          total_new_size, exit_code, report, fs0, calls>>

----------------------------------------------------------------------------
(* Bounds of the model *)

\* largest image width, height and max_width tried on optimize_image alone
MaxW == 22
MaxH == 22
MaxMW == 15
\* largest number of regular files in the directory at start
MaxFiles == 2
\* largest number of consecutive optimize_image calls on one file
MaxCalls == 2

\* significand bits of a Python float (IEEE 754 binary64)
Prec == 53

----------------------------------------------------------------------------
(* Characters, str.lower, str.endswith, os.path.join, os.path.splitext *)

ToLower ==
    [A |-> "a", B |-> "b", C |-> "c", D |-> "d", E |-> "e", F |-> "f", G |-> "g",
     H |-> "h", I |-> "i", J |-> "j", K |-> "k", L |-> "l", M |-> "m", N |-> "n",
     O |-> "o", P |-> "p", Q |-> "q", R |-> "r", S |-> "s", T |-> "t", U |-> "u",
     V |-> "v", W |-> "w", X |-> "x", Y |-> "y", Z |-> "z"]

LowerChar(c) == IF c \in DOMAIN ToLower THEN ToLower[c] ELSE c

Lower(s) == [i \in 1..Len(s) |-> LowerChar(s[i])]

EndsWith(s, suf) ==
    /\ Len(s) >= Len(suf)
    /\ SubSeq(s, Len(s) - Len(suf) + 1, Len(s)) = suf

DotPng == <<".", "p", "n", "g">>
DotJpg == <<".", "j", "p", "g">>
DotJpeg == <<".", "j", "p", "e", "g">>
DotBmp == <<".", "b", "m", "p">>
DotGif == <<".", "g", "i", "f">>
DotWebp == <<".", "w", "e", "b", "p">>

supported_formats == {DotJpg, DotJpeg, DotPng, DotBmp, DotGif, DotWebp}

\* str.rfind: the last index of character c in s, 0 when there is none
RFind(s, c) ==
    LET hits == {i \in 1..Len(s) : s[i] = c}
    IN IF hits = {} THEN 0 ELSE CHOOSE i \in hits : \A j \in hits : j <= i

\* os.path.splitext(p)[0]: p without its extension. The extension starts at
\* the last dot of the last path component, unless only dots precede it there.
SplitExtRoot(p) ==
    LET sepIndex == RFind(p, "/")
        dotIndex == RFind(p, ".")
    IN IF /\ dotIndex > sepIndex
          /\ \E i \in (sepIndex + 1)..(dotIndex - 1) : p[i] # "."
       THEN SubSeq(p, 1, dotIndex - 1)
       ELSE p

Join(dir, name) == dir \o <<"/">> \o name

\* os.path.dirname, os.path.basename
DirName(p) == SubSeq(p, 1, RFind(p, "/") - 1)
BaseName(p) == SubSeq(p, RFind(p, "/") + 1, Len(p))

----------------------------------------------------------------------------
(* Python float arithmetic of lines 50-51:                                 *)
(*     ratio = max_width / img.width ; new_height = int(img.height * ratio) *)
(* A positive float (IEEE 754 binary64) has a significand of Prec = 53     *)
(* bits. It is modelled as [m, e]: m the four 13-bit limbs that follow the *)
(* leading 1 of the significand, most significant first, and e the         *)
(* exponent of the last bit, so that its value is                          *)
(*   (2^52 + m[1]*2^39 + m[2]*2^26 + m[3]*2^13 + m[4]) * 2^e.              *)
(* Division and multiplication round to nearest, ties to even. Every       *)
(* intermediate value stays below 2^31 for operands below 8192.            *)

\* the significand plus one unit in the last place
IncLimbs(m) ==
    LET open == {i \in 1..4 : m[i] # 8191}
        p == CHOOSE i \in open : \A j \in open : j <= i
    IN [i \in 1..4 |-> IF i < p THEN m[i] ELSE IF i = p THEN m[i] + 1 ELSE 0]

\* [m, e] rounded up or not; 1.11...1 rounds up to 1.00...0 * 2
Rounded(m, e, up) ==
    IF ~up THEN [m |-> m, e |-> e]
    ELSE IF \A i \in 1..4 : m[i] = 8191 THEN [m |-> <<0, 0, 0, 0>>, e |-> e + 1]
    ELSE [m |-> IncLimbs(m), e |-> e]

\* long division of r / b, 13 bits at a time: the remainder after j limbs
RECURSIVE DivRem(_, _, _)
DivRem(r, b, j) == IF j = 0 THEN r ELSE (DivRem(r, b, j - 1) * 8192) % b

\* a / b for integers a, b > 0 (true division, correctly rounded)
FloatDiv(a, b) ==
    LET up == CHOOSE s \in 0..30 : a * 2^s >= b /\ (s = 0 \/ a * 2^(s - 1) < b)
        a1 == a * 2^up
        down == CHOOSE s \in 0..30 : b * 2^s <= a1 /\ a1 < b * 2^(s + 1)
        b1 == b * 2^down
        m == [j \in 1..4 |-> (DivRem(a1 - b1, b1, j - 1) * 8192) \div b1]
        r == DivRem(a1 - b1, b1, 4)
    IN Rounded(m, down - up - (Prec - 1),
               2 * r > b1 \/ (2 * r = b1 /\ m[4] % 2 = 1))

\* n * f for an integer 0 < n < 8192 (n converts exactly, the product is
\* rounded): limb by limb from the last, then shifted back to Prec bits
FloatMulInt(n, f) ==
    LET t4 == n * f.m[4]
        t3 == n * f.m[3] + t4 \div 8192
        t2 == n * f.m[2] + t3 \div 8192
        t1 == n * f.m[1] + t2 \div 8192
        top == n + t1 \div 8192
        p == <<top, t1 % 8192, t2 % 8192, t3 % 8192, t4 % 8192>>
        s == CHOOSE k \in 0..13 : 2^k <= top /\ top < 2^(k + 1)
        m == [j \in 1..4 |-> (p[j] % 2^s) * 2^(13 - s) + p[j + 1] \div 2^s]
        dropped == p[5] % 2^s
        guard == s >= 1 /\ dropped \div 2^(s - 1) = 1
        sticky == s >= 1 /\ dropped % 2^(s - 1) # 0
    IN Rounded(m, f.e + s, guard /\ (sticky \/ m[4] % 2 = 1))

\* int(f): truncation toward zero, for f below 2^27
FloatToInt(f) ==
    IF Prec + f.e <= 0 THEN 0
    ELSE ((8192 + f.m[1]) * 8192 + f.m[2]) \div 2^(27 - (Prec + f.e))

\* lines 50-51. With max_width <= 0 the ratio is not positive and the size
\* is one Image.resize refuses whatever the height: 0 stands for it.
NewHeight(width, height, max_width) ==
    IF max_width <= 0 \/ height = 0 THEN 0
    ELSE FloatToInt(FloatMulInt(height, FloatDiv(max_width, width)))

\* line 49 with the height tested in place of the width
NeedsResizeByHeight(width, height, max_width) == height > max_width

\* line 49: the test that decides whether the image is scaled down
NeedsResize(width, height, max_width) == width > max_width

----------------------------------------------------------------------------
(* The file system as the os and PIL calls of the script see it *)

\* an absent optional value (Python's None), and a present one
None == <<>>
Some(x) == <<x>>

Exists(f, p) == p \in f.dirs \/ p \in DOMAIN f.files
IsFile(f, p) == p \in DOMAIN f.files

\* os.listdir: the names of the entries directly inside directory d
ListDir(f, d) ==
    {BaseName(p) : p \in {q \in f.dirs \cup DOMAIN f.files :
                            RFind(q, "/") > 0 /\ DirName(q) = d}}

\* open(path, "wb") succeeds: the parent is a directory, the path is not one
CanWrite(f, p) == DirName(p) \in f.dirs /\ p \notin f.dirs

WriteFile(f, p, c) ==
    [f EXCEPT !.files = [q \in DOMAIN f.files \cup {p} |->
                            IF q = p THEN c ELSE f.files[q]]]

\* os.makedirs(d, exist_ok=True) raises when d is a regular file
MakedirsFails(f, d) == IsFile(f, d)
Makedirs(f, d) == [f EXCEPT !.dirs = f.dirs \cup {d}]

\* Contents of a regular file. ok: PIL can decode it; w, h, mode: what
\* Image.open reports; px: the file the picture was first read from; gen:
\* the number of lossy (JPEG) encodings it went through; bytes: st_size.
Picture(px, w, h, mode, fmt) ==
    [ok |-> TRUE, w |-> w, h |-> h, mode |-> mode, px |-> px, gen |-> 0,
     fmt |-> fmt, bytes |-> 10 + w * h * (IF mode = "RGBA" THEN 4 ELSE 3)]

Corrupt(px) ==
    [ok |-> FALSE, w |-> 0, h |-> 0, mode |-> "", px |-> px, gen |-> 0,
     fmt |-> "", bytes |-> 7]

\* the size of the file img.save writes: a fixed function of the picture's
\* dimensions, the format and the encoder settings
EncodedSize(fmt, w, h, jpeg_quality, png_optimize) ==
    IF fmt = "PNG" THEN 8 + w * h * (IF png_optimize THEN 2 ELSE 3)
    ELSE 2 + (w * h * jpeg_quality) \div 50

----------------------------------------------------------------------------
(* optimize_image, lines 12-89 *)

\* line 60 without .lower()
IsPngPathCaseSensitive(p) == EndsWith(p, DotPng)

\* line 60: output_path.lower().endswith('.png')
IsPngPath(p) == EndsWith(Lower(p), DotPng)

\* line 71: output_path.lower().endswith(('.jpg', '.jpeg'))
IsJpegPath(p) == EndsWith(Lower(p), DotJpg) \/ EndsWith(Lower(p), DotJpeg)

\* lines 60-73: the format img.save is given
OutputFormat(p) == IF IsPngPath(p) THEN "PNG" ELSE "JPEG"

\* lines 60-72: the path img.save is given
FinalPath(p) ==
    IF IsPngPath(p) \/ IsJpegPath(p) THEN p ELSE SplitExtRoot(p) \o DotJpg

\* lines 56-57
ResolveOutput(input_path, output_path) ==
    IF output_path = None THEN input_path ELSE output_path[1]

\* lines 87-89
Failure(f, input_path, output_path) ==
    [ok |-> FALSE, original_size |-> 0, new_size |-> 0, fs |-> f,
     input |-> input_path, output |-> output_path, written |-> None,
     format |-> "", width |-> 0, height |-> 0, src_w |-> 0, src_h |-> 0]

\* The whole call. It fails (lines 87-89) when the input is not a readable
\* regular file (line 28), cannot be decoded (line 29), when Image.resize is
\* given an empty size (line 52, ValueError) or when img.save cannot open the
\* final path (lines 66-74); in each case nothing has been written.
optimize_image(f, input_path, output_path, max_width, jpeg_quality, png_optimize) ==
    IF ~IsFile(f, input_path) \/ ~f.files[input_path].ok
    THEN Failure(f, input_path, output_path)
    ELSE
    LET src == f.files[input_path]
        resize == NeedsResize(src.w, src.h, max_width)
        new_height == IF resize THEN NewHeight(src.w, src.h, max_width) ELSE src.h
        new_width == IF resize THEN max_width ELSE src.w
        out == ResolveOutput(input_path, output_path)
        final == FinalPath(out)
        fmt == OutputFormat(out)
        img == [ok |-> TRUE, w |-> new_width, h |-> new_height, mode |-> "RGB",
                px |-> src.px, gen |-> src.gen + (IF fmt = "JPEG" THEN 1 ELSE 0),
                fmt |-> fmt,
                bytes |-> EncodedSize(fmt, new_width, new_height, jpeg_quality,
                                      png_optimize)]
        g == WriteFile(f, final, img)
    IN IF (resize /\ (new_width < 1 \/ new_height < 1)) \/ ~CanWrite(f, final)
       THEN [Failure(f, input_path, output_path) EXCEPT !.src_w = src.w, !.src_h = src.h]
       ELSE [ok |-> TRUE, original_size |-> src.bytes, new_size |-> g.files[final].bytes,
             fs |-> g, input |-> input_path, output |-> output_path,
             written |-> Some(final), format |-> fmt,
             width |-> new_width, height |-> new_height,
             src_w |-> src.w, src_h |-> src.h]


----------------------------------------------------------------------------
(* The inputs: command lines and initial directory contents *)

Imgs == <<"i", "m", "g", "s">>
Out == <<"o", "u", "t">>

\* names of regular files with a supported extension
ImageNames ==
    { <<"a", ".", "b", "m", "p">>, <<"a", ".", "j", "p", "g">>,
      <<"b", ".", "J", "P", "E", "G">>, <<"b", ".", "P", "N", "G">>,
      <<"c", ".", "g", "i", "f">>, <<"c", ".", "w", "e", "b", "p">> }

\* an unsupported regular file and a subdirectory named like an image
NotesTxt == <<"n", ".", "t", "x", "t">>
SubDir == <<"s", ".", "j", "p", "g">>

\* what a file of the directory may hold at start: garbage, a small picture,
\* a wide picture with an alpha channel
Contents(name) ==
    { Corrupt(name), Picture(name, 400, 300, "RGB", "BMP"),
      Picture(name, 2000, 1000, "RGBA", "PNG") }

Qualities == {0, 1, 100, 101}

\* lines 159-163: the defaults of the command line
DefaultArgs ==
    [directory |-> Imgs, output |-> None, max_width |-> 1200, quality |-> 85,
     png_optimize |-> TRUE]

\* the command lines tried: --quality alone; --output (not given, the empty
\* string, a directory name) with or without --no-png-optimize
CommandLines ==
    {[DefaultArgs EXCEPT !.quality = q] : q \in Qualities}
    \cup {[DefaultArgs EXCEPT !.output = o, !.png_optimize = p] :
            o \in {None, Some(<<>>), Some(Out)}, p \in BOOLEAN}

\* a directory holding the image files `names` with the contents `content`
\* and, when `extras`, the two entries that are no image files
DirWith(names, content, extras) ==
    [dirs |-> {Imgs} \cup (IF extras THEN {Join(Imgs, SubDir)} ELSE {}),
     files |-> [p \in {Join(Imgs, n) : n \in names}
                      \cup (IF extras THEN {Join(Imgs, NotesTxt)} ELSE {})
                  |-> IF BaseName(p) = NotesTxt THEN Corrupt(NotesTxt)
                      ELSE content[BaseName(p)]]]

ContentChoices(names) ==
    {c \in [names -> UNION {Contents(n) : n \in names}] :
        \A n \in names : c[n] \in Contents(n)}

\* the directories tried: empty, only the two non-image entries, or up to
\* MaxFiles image files beside the two non-image entries
Directories ==
    {DirWith({}, << >>, FALSE)}
    \cup UNION { {DirWith(names, content, TRUE) : content \in ContentChoices(names)}
                 : names \in {ns \in SUBSET ImageNames : Cardinality(ns) <= MaxFiles} }

\* the path given as --dir is missing, or is a regular file
NoDirectory == [dirs |-> {}, files |-> << >>]
DirectoryIsFile == [dirs |-> {}, files |-> (Imgs :> Corrupt(Imgs))]

\* the path given as --output is missing, a directory, or a regular file
WithOutput(f, kind) ==
    IF kind = "dir" THEN [f EXCEPT !.dirs = f.dirs \cup {Out}]
    ELSE IF kind = "file" THEN WriteFile(f, Out, Corrupt(Out))
    ELSE f

----------------------------------------------------------------------------
(* main and optimize_directory *)

\* line 168 with the lower limit off by one
QualityValidFromZero(quality) == 0 <= quality /\ quality <= 100

\* line 168
QualityValid(quality) == 1 <= quality /\ quality <= 100

\* line 133: if output_dir:
OutputGiven(output) == output # None /\ output[1] # <<>>

\* line 112: f.lower().endswith(supported_formats)
IsSupported(name) == \E ext \in supported_formats : EndsWith(Lower(name), ext)

\* lines 110-112 without the os.path.isfile test
ImageFileSetNoIsFile(f, directory) ==
    {n \in ListDir(f, directory) : IsSupported(n)}

\* lines 110-112, as a set: os.listdir yields it in an order of its own
ImageFileSet(f, directory) ==
    {n \in ListDir(f, directory) : IsFile(f, Join(directory, n)) /\ IsSupported(n)}

\* the sequences that list every element of set S once
Orders(S) ==
    {q \in [1..Cardinality(S) -> S] : \A i, j \in 1..Cardinality(S) : q[i] = q[j] => i = j}

\* lines 140-143 without the test of result[0]
AccumulateAlways(counters, result) ==
    [success_count |-> counters.success_count + 1,
     total_original_size |-> counters.total_original_size + result.original_size,
     total_new_size |-> counters.total_new_size + result.new_size]

\* lines 140-143: the counters after one result
Accumulate(counters, result) ==
    IF result.ok
    THEN [success_count |-> counters.success_count + 1,
          total_original_size |-> counters.total_original_size + result.original_size,
          total_new_size |-> counters.total_new_size + result.new_size]
    ELSE counters

\* lines 127-143: the body of the loop for one listed file, from the file
\* system f and the counters so far
LoopBody(f, counters, image_file, a) ==
    LET input_path == Join(a.directory, image_file)
        given == OutputGiven(a.output)
        g == IF given THEN Makedirs(f, a.output[1]) ELSE f
        output_path == IF given THEN Some(Join(a.output[1], image_file)) ELSE None
        result == optimize_image(g, input_path, output_path, a.max_width,
                                 a.quality, a.png_optimize)
    IN [fs |-> result.fs,
        counters |-> Accumulate(counters, result),
        call |-> [result EXCEPT !.fs = 0]]

Counters ==
    [success_count |-> success_count,
     total_original_size |-> total_original_size,
     total_new_size |-> total_new_size]

Init ==
    /\ pc = "main"
    /\ args \in CommandLines
    /\ \E d \in Directories \cup {NoDirectory, DirectoryIsFile} :
         \E kind \in {"absent", "dir", "file"} :
            /\ kind # "absent" => args.output = Some(Out)
            /\ fs = WithOutput(d, kind)
    /\ image_files = <<>>
    /\ idx = 0
    /\ success_count = 0
    /\ total_original_size = 0
    /\ total_new_size = 0
    /\ exit_code = -1
    /\ report = "none"
    /\ fs0 = fs
    /\ calls = <<>>

\* lines 165-170: the quality is refused, sys.exit(1)
MainRejects ==
    /\ pc = "main"
    /\ ~QualityValid(args.quality)
    /\ pc' = "exit"
    /\ exit_code' = 1
    /\ report' = "quality_error"
    /\ UNCHANGED <<args, fs, image_files, idx, success_count, total_original_size,
                   total_new_size, fs0, calls>>

\* lines 165-178: main calls optimize_directory
MainProceeds ==
    /\ pc = "main"
    /\ QualityValid(args.quality)
    /\ pc' = "optimize_directory"
    /\ UNCHANGED <<args, fs, image_files, idx, success_count, total_original_size,
                   total_new_size, exit_code, report, fs0, calls>>

\* lines 102-104
DirectoryMissing ==
    /\ pc = "optimize_directory"
    /\ ~Exists(fs, args.directory)
    /\ pc' = "exit"
    /\ exit_code' = 0
    /\ report' = "no_directory"
    /\ UNCHANGED <<args, fs, image_files, idx, success_count, total_original_size,
                   total_new_size, fs0, calls>>

\* line 110: os.listdir raises NotADirectoryError, nothing catches it
ListingRaises ==
    /\ pc = "optimize_directory"
    /\ IsFile(fs, args.directory)
    /\ pc' = "exit"
    /\ exit_code' = 1
    /\ report' = "traceback"
    /\ UNCHANGED <<args, fs, image_files, idx, success_count, total_original_size,
                   total_new_size, fs0, calls>>

\* lines 110-116
NoImages ==
    /\ pc = "optimize_directory"
    /\ args.directory \in fs.dirs
    /\ ImageFileSet(fs, args.directory) = {}
    /\ pc' = "exit"
    /\ exit_code' = 0
    /\ report' = "no_images"
    /\ UNCHANGED <<args, fs, image_files, idx, success_count, total_original_size,
                   total_new_size, fs0, calls>>

\* lines 110-124
StartLoop ==
    /\ pc = "optimize_directory"
    /\ args.directory \in fs.dirs
    /\ ImageFileSet(fs, args.directory) # {}
    /\ image_files' \in Orders(ImageFileSet(fs, args.directory))
    /\ idx' = 0
    /\ success_count' = 0
    /\ total_original_size' = 0
    /\ total_new_size' = 0
    /\ pc' = "loop"
    /\ UNCHANGED <<args, fs, exit_code, report, fs0, calls>>

\* lines 126-134: os.path.getsize or os.makedirs raises, outside any try
IterationRaises ==
    /\ pc = "loop"
    /\ idx < Len(image_files)
    /\ \/ ~Exists(fs, Join(args.directory, image_files[idx + 1]))
       \/ OutputGiven(args.output) /\ MakedirsFails(fs, args.output[1])
    /\ pc' = "exit"
    /\ exit_code' = 1
    /\ report' = "traceback"
    /\ UNCHANGED <<args, fs, image_files, idx, success_count, total_original_size,
                   total_new_size, fs0, calls>>

\* lines 126-143: one iteration of the loop
Iteration ==
    /\ pc = "loop"
    /\ idx < Len(image_files)
    /\ Exists(fs, Join(args.directory, image_files[idx + 1]))
    /\ ~(OutputGiven(args.output) /\ MakedirsFails(fs, args.output[1]))
    /\ LET after == LoopBody(fs, Counters, image_files[idx + 1], args)
       IN /\ fs' = after.fs
          /\ calls' = Append(calls, after.call)
          /\ success_count' = after.counters.success_count
          /\ total_original_size' = after.counters.total_original_size
          /\ total_new_size' = after.counters.total_new_size
    /\ idx' = idx + 1
    /\ UNCHANGED <<pc, args, image_files, exit_code, report, fs0>>

\* lines 145-152 and the return to main
Summary ==
    /\ pc = "loop"
    /\ idx = Len(image_files)
    /\ pc' = "exit"
    /\ exit_code' = 0
    /\ report' = "summary"
    /\ UNCHANGED <<args, fs, image_files, idx, success_count, total_original_size,
                   total_new_size, fs0, calls>>

Next ==
    \/ MainRejects
    \/ MainProceeds
    \/ DirectoryMissing
    \/ ListingRaises
    \/ NoImages
    \/ StartLoop
    \/ IterationRaises
    \/ Iteration
    \/ Summary

Spec == Init /\ [][Next]_vars


----------------------------------------------------------------------------
(* optimize_image called on its own, once and then again on its output *)

OutDotted == <<"o", ".", "d">>

\* file names tried as input and as output: the supported extensions in
\* lower, upper and mixed case, an unsupported one, none, two dots, a name
\* that is only an extension
PathNames ==
    ImageNames
    \cup { NotesTxt, <<"r", "a", "w">>, <<".", "p", "n", "g">>, <<".", "b", "m", "p">>,
           <<"a", ".", "b", ".", "g", "i", "f">>, <<"p", ".", "P", "n", "G">>,
           <<"q", ".", "j", "p", "e", "g">>, <<"p", "n", "g">> }

ImgFs(input_path, content) ==
    [dirs |-> {Imgs, Out, OutDotted}, files |-> (input_path :> content)]

ImgArgs(input_path, output_path, max_width, png_optimize) ==
    [input_path |-> input_path, output_path |-> output_path, max_width |-> max_width,
     jpeg_quality |-> 85, png_optimize |-> png_optimize]

InitImg ==
    /\ pc = "call"
    /\ \/ \E w \in 1..MaxW, h \in 1..MaxH, mw \in 0..MaxMW :
            LET input_path == Join(Imgs, <<"a", ".", "b", "m", "p">>)
            IN /\ args = ImgArgs(input_path, None, mw, TRUE)
               /\ fs = ImgFs(input_path, Picture(input_path, w, h, "RGB", "BMP"))
       \/ \E n \in PathNames, png_optimize \in BOOLEAN :
          \E content \in Contents(n) :
          \E output_path \in {None} \cup {Some(Join(d, o)) : d \in {Out, OutDotted},
                                                             o \in PathNames} :
            /\ args = ImgArgs(Join(Imgs, n), output_path, 1200, png_optimize)
            /\ fs = ImgFs(Join(Imgs, n), content)
    /\ image_files = <<>>
    /\ idx = 0
    /\ success_count = 0
    /\ total_original_size = 0
    /\ total_new_size = 0
    /\ exit_code = -1
    /\ report = "none"
    /\ fs0 = fs
    /\ calls = <<>>

CallOn(input_path) ==
    LET result == optimize_image(fs, input_path, args.output_path, args.max_width,
                                 args.jpeg_quality, args.png_optimize)
    IN /\ fs' = result.fs
       /\ calls' = Append(calls, [result EXCEPT !.fs = 0])
       /\ UNCHANGED <<pc, args, image_files, idx, success_count, total_original_size,
                      total_new_size, exit_code, report, fs0>>

FirstCall ==
    /\ pc = "call"
    /\ calls = <<>>
    /\ CallOn(args.input_path)

\* the call again, on the file the last call wrote
RepeatCall ==
    /\ pc = "call"
    /\ calls # <<>>
    /\ Len(calls) < MaxCalls
    /\ calls[Len(calls)].ok
    /\ CallOn(calls[Len(calls)].written[1])

NextImg ==
    \/ FirstCall
    \/ RepeatCall

SpecImg == InitImg /\ [][NextImg]_vars


----------------------------------------------------------------------------
(* Properties *)

\* the last Len(suf) characters of p are those of suf, in either case
EndsInIgnoringCase(p, suf) ==
    /\ Len(p) >= Len(suf)
    /\ \A i \in 1..Len(suf) :
         LET c == p[Len(p) - Len(suf) + i]
         IN c = suf[i] \/ (c \in DOMAIN ToLower /\ ToLower[c] = suf[i])

\* the regular files directly inside directory d of file system f whose
\* name ends in one of the six extensions
MatchingFiles(f, d) ==
    {p \in DOMAIN f.files :
        /\ Len(p) > Len(d) + 1
        /\ SubSeq(p, 1, Len(d) + 1) = d \o <<"/">>
        /\ \A i \in (Len(d) + 2)..Len(p) : p[i] # "/"
        /\ \E ext \in {DotJpg, DotJpeg, DotPng, DotBmp, DotGif, DotWebp} :
             EndsInIgnoringCase(p, ext)}

CallIndexes == 1..Len(calls)
Succeeded == {i \in CallIndexes : calls[i].ok}

RECURSIVE SumOver(_, _)
SumOver(I, field) ==
    IF I = {} THEN 0
    ELSE LET i == CHOOSE x \in I : TRUE
         IN calls[i][field] + SumOver(I \ {i}, field)

\* C1: every decodable image wider than a positive max_width is optimized
\* successfully, to width max_width exactly and height
\* floor(original_height * max_width / original_width) on exact integers,
\* also when that floor is 0.
C1_ResizeExact ==
    \A i \in CallIndexes :
        (args.max_width > 0 /\ calls[i].src_w > args.max_width)
        => /\ calls[i].ok
           /\ calls[i].width = args.max_width
           /\ calls[i].height = (calls[i].src_h * args.max_width) \div calls[i].src_w

\* C2: without an output directory every successful call writes its own
\* input path, and no file at any other path is created or modified.
C2_InPlaceOverwritesInput ==
    (pc # "call" /\ (args.output = None \/ args.output = Some(<<>>)))
    => /\ \A i \in Succeeded : calls[i].written = Some(calls[i].input)
       /\ DOMAIN fs.files = DOMAIN fs0.files
       /\ \A p \in DOMAIN fs0.files :
            fs.files[p] # fs0.files[p] => \E i \in Succeeded : calls[i].input = p

\* C3: once the loop has started no error escapes optimize_directory: the
\* process never ends on a traceback, and when it has ended the loop has
\* gone through the whole listing and the summary has been reported.
C3_NoErrorEscapesBatch ==
    (pc # "call" /\ image_files # <<>>)
    => /\ report # "traceback"
       /\ pc = "exit" => (report = "summary" /\ Len(calls) = Len(image_files)
                          /\ exit_code = 0)

\* C4: optimize_image is only ever called on a regular file that was directly
\* in the directory, with a supported extension, at the start; never twice on
\* the same one; and when optimize_directory has ended it has been called on
\* each of them.
C4_EachImageExactlyOnce ==
    pc # "call" =>
    LET listed == MatchingFiles(fs0, args.directory)
    IN /\ \A i \in CallIndexes : calls[i].input \in listed
       /\ \A i, j \in CallIndexes : calls[i].input = calls[j].input => i = j
       /\ (pc = "exit" /\ report # "quality_error")
          => {calls[i].input : i \in CallIndexes} = listed

\* C5: with a quality outside 1..100 the process ends with status 1 on the
\* quality error, optimize_directory is never entered and nothing is listed,
\* read or written; with a quality inside 1..100 main enters
\* optimize_directory.
C5_QualityGate ==
    (pc # "call" /\ pc # "main")
    => IF args.quality < 1 \/ args.quality > 100
       THEN /\ pc = "exit" /\ exit_code = 1 /\ report = "quality_error"
            /\ fs = fs0 /\ calls = <<>> /\ image_files = <<>>
       ELSE /\ report # "quality_error"
            /\ pc \in {"optimize_directory", "loop"}
               \/ (pc = "exit" /\ report \in {"no_directory", "no_images", "summary",
                                               "traceback"})

C5_Witness ==
    pc = "exit" /\ args.quality = 101 /\ exit_code = 1 /\ report = "quality_error"

\* C6: a successful call on an image no wider than max_width leaves width and
\* height as they were, whatever the height; and a successful call on the
\* file a successful call wrote leaves that file's width and height as the
\* first call made them.
C6_DimensionsIdempotent ==
    pc = "call" =>
    /\ \A i \in Succeeded :
         calls[i].src_w <= args.max_width
         => calls[i].width = calls[i].src_w /\ calls[i].height = calls[i].src_h
    /\ \A i \in Succeeded, j \in Succeeded :
         (j = i + 1 /\ Some(calls[j].input) = calls[i].written)
         => calls[j].width = calls[i].width /\ calls[j].height = calls[i].height

C6_Witness ==
    /\ pc = "call"
    /\ Len(calls) >= 2
    /\ calls[1].ok /\ calls[1].src_w > args.max_width /\ calls[1].height < calls[1].src_h
    /\ calls[2].ok /\ Some(calls[2].input) = calls[1].written
    /\ calls[2].height > args.max_width

\* C7: when the path given as the directory does not exist, or is a
\* directory without any matching file, optimize_image is never called, the
\* file system stays as it was (no output directory, no file written), the
\* loop is never entered, and once main has let the run through the process
\* ends with status 0 on the corresponding report.
C7_NothingToDo ==
    (/\ pc # "call"
     /\ \/ ~(args.directory \in fs0.dirs \/ args.directory \in DOMAIN fs0.files)
        \/ args.directory \in fs0.dirs /\ MatchingFiles(fs0, args.directory) = {})
    => /\ calls = <<>>
       /\ fs = fs0
       /\ pc # "loop"
       /\ (pc = "exit" /\ report # "quality_error")
          => /\ exit_code = 0
             /\ report = (IF args.directory \in fs0.dirs THEN "no_images"
                          ELSE "no_directory")

C7_Witness ==
    /\ pc = "exit" /\ report = "no_images" /\ exit_code = 0
    /\ Join(Imgs, NotesTxt) \in DOMAIN fs0.files
    /\ Join(Imgs, SubDir) \in fs0.dirs
    /\ args.output = Some(Out)

\* The file name each name of PathNames becomes when its extension (as
\* os.path.splitext defines it) is replaced by .jpg
JpgNameOf ==
    ( <<"a", ".", "b", "m", "p">> :> <<"a", ".", "j", "p", "g">> )
    @@ ( <<"c", ".", "g", "i", "f">> :> <<"c", ".", "j", "p", "g">> )
    @@ ( <<"c", ".", "w", "e", "b", "p">> :> <<"c", ".", "j", "p", "g">> )
    @@ ( <<"n", ".", "t", "x", "t">> :> <<"n", ".", "j", "p", "g">> )
    @@ ( <<"r", "a", "w">> :> <<"r", "a", "w", ".", "j", "p", "g">> )
    @@ ( <<".", "b", "m", "p">> :> <<".", "b", "m", "p", ".", "j", "p", "g">> )
    @@ ( <<"a", ".", "b", ".", "g", "i", "f">> :> <<"a", ".", "b", ".", "j", "p", "g">> )
    @@ ( <<"p", "n", "g">> :> <<"p", "n", "g", ".", "j", "p", "g">> )

C9_CountersCoverSuccesses ==
    pc # "call" =>
    /\ success_count = Cardinality(Succeeded)
    /\ total_original_size = SumOver(Succeeded, "original_size")
    /\ total_new_size = SumOver(Succeeded, "new_size")
    /\ \A i \in CallIndexes \ Succeeded :
         calls[i].original_size = 0 /\ calls[i].new_size = 0
    /\ (report = "summary" /\ Succeeded = {})
       => /\ Len(calls) = Len(image_files)
          /\ success_count = 0 /\ total_original_size = 0 /\ total_new_size = 0

C9_Witness ==
    /\ pc = "exit" /\ report = "summary"
    /\ Len(calls) = 2
    /\ ~calls[1].ok /\ calls[2].ok
    /\ success_count = 1
    /\ total_original_size > total_new_size

\* the batch loop run over the listing in order q, from the file system at
\* start: the files that succeeded, the counters and the files at the end
RECURSIVE Replay(_, _, _, _, _)
Replay(f, counters, succeeded, q, i) ==
    IF i > Len(q)
    THEN [succeeded |-> succeeded, counters |-> counters, files |-> f.files]
    ELSE LET after == LoopBody(f, counters, q[i], args)
         IN Replay(after.fs, after.counters,
                   IF after.call.ok THEN succeeded \cup {q[i]} ELSE succeeded,
                   q, i + 1)

\* C10: a batch that ended on its summary has the outcome that every other
\* processing order of the same directory would have had: the same files
\* succeeded, the same byte totals, the same contents of every file.
C10_OrderIndependent ==
    (pc = "exit" /\ report = "summary")
    => \A q \in Orders(ImageFileSet(fs0, args.directory)) :
          Replay(fs0, [success_count |-> 0, total_original_size |-> 0,
                       total_new_size |-> 0], {}, q, 1)
          = [succeeded |-> {image_files[i] : i \in Succeeded},
             counters |-> Counters,
             files |-> fs.files]

====
